---------------------------- MODULE Spec2Model ----------------------------
(***************************************************************************)
(* A model of subgen_whisperx.py: the compute-device selector, the media   *)
(* discoverer, the audio extractor, the subtitle renderer and clipper, and *)
(* the batch loop of main with the calls it makes on the global stopwatch. *)
(*                                                                         *)
(* Python strings are sequences.  A text (subtitle text, a device          *)
(* preference) is a sequence of one-character strings.  A path is a        *)
(* sequence of path symbols: the separators "/" and ".", and the maximal   *)
(* runs of other characters between them ("a", "mp4", "Transcription"),    *)
(* which is all that rsplit("."), basename, dirname, splitext and join     *)
(* look at.  The absent value None is the one-symbol sequence None.        *)
(***************************************************************************)
EXTENDS Integers, Sequences, FiniteSets, TLC

VARIABLES
    args,         \* the parsed command line: directory, file, compute_device
    env,          \* the file system main sees: isdir, isfile, the os.walk order
    pc,           \* main's position
    media_files,  \* the result of get_media_files (None, or the candidate list)
    idx,          \* the batch loop's position in media_files (1-based)
    loc,          \* the loop body's locals
    stopwatch,    \* the labels running on the global timer, and what was observed on it
    fs,           \* the subtitle files written: output path -> what was written
    cand,         \* per candidate: the stages it went through and the calls made for it
    call,         \* the function under test and its inputs (SpecDev, SpecPP)
    ret           \* its result

vars == <<args, env, pc, media_files, idx, loc, stopwatch, fs, cand, call, ret>>

mainVars == <<args, env, pc, media_files, idx, loc, stopwatch, fs, cand>>

-----------------------------------------------------------------------------
(* Python values                                                           *)

None == <<"None">>

Min(a, b) == IF a <= b THEN a ELSE b

\* s[a:b] with 0-based Python bounds 0 <= a, b
Slice(s, a, b) == SubSeq(s, a + 1, Min(b, Len(s)))

Range(s) == {s[k] : k \in 1..Len(s)}

\* n copies of the element c
Rep(c, n) == [k \in 1..n |-> c]

\* the largest (1-based) index of c in s, 0 when c does not occur: s.rfind(c) + 1
RFind(s, c) ==
    LET hits == {k \in 1..Len(s) : s[k] = c}
    IN  IF hits = {} THEN 0 ELSE CHOOSE k \in hits : \A m \in hits : m <= k

\* sub in s
Contains(s, sub) ==
    \E k \in 0..(Len(s) - Len(sub)) : SubSeq(s, k + 1, k + Len(sub)) = sub

LowerChar(c) ==
    CASE c = "C" -> "c"
      [] c = "U" -> "u"
      [] c = "D" -> "d"
      [] c = "A" -> "a"
      [] c = "P" -> "p"
      [] OTHER -> c

\* s.lower()
str_lower(s) == [k \in 1..Len(s) |-> LowerChar(s[k])]

-----------------------------------------------------------------------------
(* get_device                                                              *)

cuda_token == <<"c", "u", "d", "a">>

\* the outcomes of torch.cuda.is_available(): it returns True or False, or raises
CudaProbes == {"true", "false", "raises"}

\* a call's outcome: the value returned, and whether an exception left the function
Return(v) == [raised |-> FALSE, value |-> v]

wants_cuda_exact(device_selection) ==
    device_selection = None \/ Contains(device_selection, cuda_token)

\* line 49: device_selection is None or "cuda" in device_selection.lower()
wants_cuda(device_selection) ==
    device_selection = None \/ Contains(str_lower(device_selection), cuda_token)

\* lines 50-58: the probe inside try/except Exception; a raise falls through to line 61
probe_cuda(probe) ==
    IF probe = "raises" THEN Return("cpu")
    ELSE IF probe = "true" THEN Return("cuda")
    ELSE Return("cpu")

get_device(device_selection, probe) ==
    IF wants_cuda(device_selection) THEN probe_cuda(probe) ELSE Return("cpu")


-----------------------------------------------------------------------------
(* generate_subtitles and post_process                                     *)

\* os.linesep, as one character
linesep == <<"\n">>

Digit(d) == <<<<"0">>, <<"1">>, <<"2">>, <<"3">>, <<"4">>, <<"5">>, <<"6">>, <<"7">>, <<"8">>, <<"9">>>>[d + 1]

\* str(n) for n >= 0
RECURSIVE Str(_)
Str(n) == IF n < 10 THEN Digit(n) ELSE Str(n \div 10) \o Digit(n % 10)

\* n in decimal, zero-padded to at least w digits
RECURSIVE Pad(_, _)
Pad(n, w) == IF Len(Str(n)) >= w THEN Str(n) ELSE Rep("0", w - Len(Str(n))) \o Str(n)

\* timer.Timer.format_time: seconds, held here as whole milliseconds, to HH:MM:SS,mmm
format_time(ms) ==
    Pad(ms \div 3600000, 2) \o <<":">> \o Pad((ms \div 60000) % 60, 2) \o <<":">>
        \o Pad((ms \div 1000) % 60, 2) \o <<",">> \o Pad(ms % 1000, 3)

IsSpace(c) == c \in {" ", "\n", "\t"}

\* s.strip()
RECURSIVE str_strip(_)
str_strip(s) ==
    IF s = <<>> THEN s
    ELSE IF IsSpace(Head(s)) THEN str_strip(Tail(s))
    ELSE IF IsSpace(s[Len(s)]) THEN str_strip(SubSeq(s, 1, Len(s) - 1))
    ELSE s

\* sep.join(parts)
RECURSIVE str_join(_, _)
str_join(sep, parts) ==
    IF parts = <<>> THEN <<>>
    ELSE IF Len(parts) = 1 THEN parts[1]
    ELSE parts[1] \o sep \o str_join(sep, Tail(parts))

\* lines 204-211: the three entries one segment appends to srt_content
srt_block(i, segment) ==
    << linesep \o Str(i),
       format_time(segment.start) \o <<" ", "-", "-", ">", " ">> \o format_time(segment.end),
       str_strip(segment.text) \o linesep >>

RECURSIVE srt_content(_, _)
srt_content(segments, i) ==
    IF i > Len(segments) THEN <<>>
    ELSE srt_block(i, segments[i]) \o srt_content(segments, i + 1)

generate_subtitles(segments) == str_join(linesep, srt_content(segments, 1))

clip_limit == 150

\* s.rsplit(" ", 1)[0]: what precedes the last " " of s, the whole of s without one
rsplit_space_head(s) ==
    IF RFind(s, " ") = 0 THEN s ELSE SubSeq(s, 1, RFind(s, " ") - 1)

\* lines 230-239, for one item of the loop
clip_line(line) ==
    IF Len(line) > clip_limit THEN rsplit_space_head(Slice(line, 0, clip_limit)) ELSE line

\* the items "for line in subtitles" yields when subtitles is a str, as main
\* passes it: its characters, each a string of length one
str_items(subtitles) == [k \in 1..Len(subtitles) |-> <<subtitles[k]>>]

\* lines 228-241: subtitles_clean after the items lo..hi, each clipped, were added
RECURSIVE concat_clipped(_, _, _)
concat_clipped(items, lo, hi) ==
    IF lo > hi THEN <<>>
    ELSE IF lo = hi THEN clip_line(items[lo])
    ELSE concat_clipped(items, lo, (lo + hi) \div 2)
            \o concat_clipped(items, (lo + hi) \div 2 + 1, hi)

post_process(subtitles) ==
    concat_clipped(str_items(subtitles), 1, Len(str_items(subtitles)))

-----------------------------------------------------------------------------
(* os.path on paths                                                        *)

\* p.rsplit(".", 1)[0]
rsplit_dot_head(p) ==
    IF RFind(p, ".") = 0 THEN p ELSE SubSeq(p, 1, RFind(p, ".") - 1)

\* os.path.basename(p)
basename(p) == SubSeq(p, RFind(p, "/") + 1, Len(p))

\* s.rstrip("/")
RECURSIVE rstrip_sep(_)
rstrip_sep(s) ==
    IF s # <<>> /\ s[Len(s)] = "/" THEN rstrip_sep(SubSeq(s, 1, Len(s) - 1)) ELSE s

\* os.path.dirname(p): the head up to the last "/", without trailing separators
\* unless it is made of separators only
dirname(p) ==
    LET head == SubSeq(p, 1, RFind(p, "/"))
    IN  IF head # <<>> /\ head # Rep("/", Len(head)) THEN rstrip_sep(head) ELSE head

\* os.path.join(a, b)
path_join(a, b) ==
    IF b # <<>> /\ b[1] = "/" THEN b
    ELSE IF a = <<>> \/ a[Len(a)] = "/" THEN a \o b
    ELSE a \o <<"/">> \o b

\* os.path.splitext(p)[0]: p up to its last ".", when that dot lies in the last
\* component and a character other than "." precedes it there
splitext_root(p) ==
    LET sep == RFind(p, "/")
        dot == RFind(p, ".")
    IN  IF dot > sep /\ \E k \in (sep + 1)..(dot - 1) : p[k] # "."
        THEN SubSeq(p, 1, dot - 1)
        ELSE p

-----------------------------------------------------------------------------
(* is_media_file and get_media_files                                       *)

\* what ffmpeg.probe gives: it raises, or returns the codec types of the streams
ProbeOutcomes ==
    {[raises |-> TRUE, streams |-> <<>>]}
        \cup {[raises |-> FALSE, streams |-> st] :
                st \in {<<>>, <<"audio">>, <<"video">>, <<"data">>, <<"video", "audio">>}}

\* lines 65-81: <<_valid_media_flag, _valid_audio_flag>>
is_media_file(probe) ==
    IF probe.raises THEN <<FALSE, FALSE>>
    ELSE IF Len(probe.streams) > 0
    THEN IF probe.streams[1] = "audio" \/ probe.streams[1] = "video"
         THEN <<TRUE, probe.streams[1] = "audio">>
         ELSE <<FALSE, FALSE>>
    ELSE <<FALSE, FALSE>>

\* Python truth of an optional string: neither None nor empty
Truthy(s) == s # None /\ s # <<>>

\* lines 98-103: the candidates the walk appends, entry k probed as probes[k]
RECURSIVE walk_candidates(_, _, _)
walk_candidates(walk, probes, k) ==
    IF k > Len(walk) THEN <<>>
    ELSE (IF is_media_file(probes[k])[1]
          THEN << <<path_join(walk[k][1], walk[k][2]), is_media_file(probes[k])[2]>> >>
          ELSE <<>>)
         \o walk_candidates(walk, probes, k + 1)

\* what get_media_files returns: None, or the list of candidates
NoList == [none |-> TRUE, items |-> <<>>]

List(items) == [none |-> FALSE, items |-> items]

\* not media_files
Falsy(m) == m.none \/ m.items = <<>>

\* lines 113-115: the single file is not a valid media file
file_invalid(found) == NoList

\* lines 109-117, media_files holding found
with_single_file(found, file, probe) ==
    IF Truthy(file)
    THEN IF is_media_file(probe)[1]
         THEN List(Append(found, <<file, is_media_file(probe)[2]>>))
         ELSE file_invalid(found)
    ELSE List(found)

\* lines 95-117; walk is what os.walk(directory) yields, as <<root, name>> pairs
get_media_files(directory, file, walk, probes, file_probe) ==
    IF Truthy(directory)
    THEN IF walk_candidates(walk, probes, 1) = <<>>
         THEN NoList
         ELSE with_single_file(walk_candidates(walk, probes, 1), file, file_probe)
    ELSE with_single_file(<<>>, file, file_probe)

-----------------------------------------------------------------------------
(* extract_audio, transcribe, and the output path                          *)

AudioExtraction == <<"Audio Extraction">>

Transcription == <<"Transcription">>

\* lines 140-142: f"audio-{os.path.splitext(os.path.basename(video_path))[0]}.mp3"
extracted_audio_path(video_path) ==
    <<"audio-">> \o splitext_root(basename(video_path)) \o <<".", "mp3">>

\* line 312: str(os.path.basename(input_media_path.rsplit(".", 1)[0]))
file_name_of(input_media_path) == basename(rsplit_dot_head(input_media_path))

\* line 337: f"{file_name}.ai-{language}.srt"
subtitle_file_name(file_name, language) ==
    file_name \o <<".", "ai-">> \o language \o <<".", "srt">>

subtitle_path_cwd(input_media_path, language) ==
    subtitle_file_name(file_name_of(input_media_path), language)

\* lines 340-342
subtitle_path(input_media_path, language) ==
    path_join(dirname(input_media_path),
              subtitle_file_name(file_name_of(input_media_path), language))

always_extract(audio_flag) == TRUE

\* line 316: if not audio_flag
needs_extraction(audio_flag) == ~audio_flag

\* what whisperx returns for a file: the detected language and the aligned segments
TranscribeResults ==
    {[language |-> <<"en">>,
      segments |-> <<[start |-> 0, end |-> 1500, text |-> <<" ", "h", "i">>]>>],
     [language |-> <<"fr">>,
      segments |-> <<[start |-> 0, end |-> 1500, text |-> <<"o", "u", "i", " ">>],
                     [start |-> 3725500, end |-> 3727000, text |-> <<"n", "o", "n">>]>>]}

\* stopwatch.start(label), stopwatch.stop(label), stopwatch.summary(): the labels
\* running, those started while already running, and the summaries emitted
timer_start(sw, label) ==
    [sw EXCEPT !.running = @ \cup {label},
               !.overlapped = IF label \in sw.running THEN @ \cup {label} ELSE @]

timer_stop(sw, label) == [sw EXCEPT !.running = @ \ {label}]

timer_summary(sw) == [sw EXCEPT !.summaries = @ + 1]

-----------------------------------------------------------------------------
(* The state of main before it runs; the function specifications leave it  *)
(* alone.                                                                  *)

NoArgs == [directory |-> None, file |-> None, compute_device |-> None]

NoEnv ==
    [no_flags |-> FALSE, dir_isdir |-> FALSE, file_isfile |-> FALSE, walk |-> <<>>,
     dir_found |-> <<>>, file_valid |-> FALSE]

NoLocals ==
    [input_media_path |-> None, audio_flag |-> FALSE, file_name |-> None,
     ffmpeg_raised |-> FALSE, audio_path |-> None, device |-> "none",
     transcribe_device |-> "none", language |-> None,
     segments |-> <<>>, subtitles |-> <<>>]

NoFiles == [p \in {} |-> p]

NewStopwatch == [running |-> {}, overlapped |-> {}, summaries |-> 0]

MainIdle ==
    /\ args = NoArgs
    /\ env = NoEnv
    /\ pc = "idle"
    /\ media_files = NoList
    /\ idx = 0
    /\ loc = NoLocals
    /\ stopwatch = NewStopwatch
    /\ fs = NoFiles
    /\ cand = <<>>

Pending == [raised |-> FALSE, value |-> "pending"]

-----------------------------------------------------------------------------
(* Spec: main                                                              *)

MaxFiles == 2

Directory == <<"d">>

\* the files os.walk may meet under the directory, as <<root, name>>
WalkEntries ==
    { <<Directory, <<"a", ".", "mp4">>>>,
      <<Directory, <<"a", ".", "mkv">>>>,
      <<Directory \o <<"/", "s">>, <<"Transcription", ".", "mp4">>>> }

\* the orders in which a walk may yield up to MaxFiles distinct files
Walks ==
    {w \in UNION {[1..n -> WalkEntries] : n \in 0..MaxFiles} :
        \A j, k \in 1..Len(w) : j # k => w[j] # w[k]}

FileArgs == { <<"d", "/", "a", ".", "mp4">>, <<"a", ".", "mp4">> }

ComputeDevices == {None, <<"c", "u", "d", "a">>, <<"c", "p", "u">>}

Init ==
    /\ \E d \in {None, Directory}, f \in {None} \cup FileArgs, c \in ComputeDevices :
            args = [directory |-> d, file |-> f, compute_device |-> c]
    /\ \E nf, isd, isf \in BOOLEAN, w \in Walks :
            /\ nf => args = NoArgs
            /\ isd => args.directory # None
            /\ isf => args.file # None
            /\ w # <<>> => isd
            /\ env = [NoEnv EXCEPT !.no_flags = nf, !.dir_isdir = isd,
                                   !.file_isfile = isf, !.walk = w]
    /\ pc = "start"
    /\ media_files = NoList
    /\ idx = 0
    /\ loc = NoLocals
    /\ stopwatch = NewStopwatch
    /\ fs = NoFiles
    /\ cand = <<>>
    /\ call = [fn |-> "main"]
    /\ ret = Pending

\* what is kept of a candidate: the stages it entered, the paths extract_audio
\* returned for it, the audio paths transcribe was called with, the language and
\* path of each subtitle file written for it, and where it failed
NewCandidate == [stages |-> <<"Discovered">>, extracted |-> <<>>, transcribed |-> <<>>,
                 written |-> <<>>, failed_at |-> "none"]

Stage(c) == c.stages[Len(c.stages)]

Enter(c, stage) == [c EXCEPT !.stages = Append(@, stage)]

Fail(c, where) == [Enter(c, "Failed") EXCEPT !.failed_at = where]

\* lines 283-302: no flags at all prints the usage and exits 1; a directory or a
\* file that does not exist is logged and main returns
MainValidate ==
    /\ pc = "start"
    /\ pc' = IF env.no_flags THEN "exit1"
             ELSE IF Truthy(args.directory) /\ ~env.dir_isdir THEN "done"
             ELSE IF Truthy(args.file) /\ ~env.file_isfile THEN "done"
             ELSE "discover"
    /\ UNCHANGED <<args, env, media_files, idx, loc, stopwatch, fs, cand, call, ret>>

\* lines 304-306: get_media_files, and the return when it found nothing
MainDiscover ==
    /\ pc = "discover"
    /\ \E probes \in [1..Len(env.walk) -> ProbeOutcomes], file_probe \in ProbeOutcomes :
          LET found == get_media_files(args.directory, args.file, env.walk,
                                       probes, file_probe)
          IN  /\ media_files' = found
              /\ env' = [env EXCEPT
                            !.dir_found = IF Truthy(args.directory)
                                          THEN walk_candidates(env.walk, probes, 1)
                                          ELSE <<>>,
                            !.file_valid = is_media_file(file_probe)[1]]
              /\ IF Falsy(found)
                 THEN /\ pc' = "done"
                      /\ UNCHANGED <<idx, cand>>
                 ELSE /\ pc' = "loop"
                      /\ idx' = 1
                      /\ cand' = [k \in 1..Len(found.items) |-> NewCandidate]
    /\ UNCHANGED <<args, loc, stopwatch, fs, call, ret>>

\* lines 309-313: the next candidate, or the end of the loop
MainNextFile ==
    /\ pc = "loop"
    /\ idx <= Len(media_files.items)
    /\ loc' = [NoLocals EXCEPT
                  !.input_media_path = media_files.items[idx][1],
                  !.audio_flag = media_files.items[idx][2],
                  !.file_name = file_name_of(media_files.items[idx][1])]
    /\ stopwatch' = timer_start(stopwatch, file_name_of(media_files.items[idx][1]))
    /\ pc' = "extract"
    /\ UNCHANGED <<args, env, media_files, idx, fs, cand, call, ret>>

\* lines 316-321, with extract_audio (lines 138-165): the transcoder runs or
\* raises inside try/except, and the derived path is returned either way
MainExtractAudio ==
    /\ pc = "extract"
    /\ IF needs_extraction(loc.audio_flag)
       THEN \E ffmpeg_raises \in BOOLEAN :
              /\ loc' = [loc EXCEPT !.audio_path = extracted_audio_path(loc.input_media_path),
                                    !.ffmpeg_raised = ffmpeg_raises]
              /\ stopwatch' = timer_stop(timer_start(stopwatch, AudioExtraction),
                                         AudioExtraction)
              /\ cand' = [cand EXCEPT ![idx] =
                            [Enter(@, "AudioReady") EXCEPT !.extracted =
                                Append(@, extracted_audio_path(loc.input_media_path))]]
       ELSE /\ loc' = [loc EXCEPT !.audio_path = loc.input_media_path]
            /\ cand' = [cand EXCEPT ![idx] = Enter(@, "AudioReady")]
            /\ UNCHANGED stopwatch
    /\ pc' = "device"
    /\ UNCHANGED <<args, env, media_files, idx, fs, call, ret>>

\* line 326, the argument device=get_device(args.compute_device.lower()):
\* None has no lower(), and the AttributeError leaves main
MainGetDevice ==
    /\ pc = "device"
    /\ IF args.compute_device = None
       THEN /\ pc' = "crashed"
            /\ cand' = [cand EXCEPT ![idx] = Fail(@, "device")]
            /\ UNCHANGED loc
       ELSE \E probe \in CudaProbes :
              /\ loc' = [loc EXCEPT !.device =
                            get_device(str_lower(args.compute_device), probe).value]
              /\ pc' = "transcribe"
              /\ UNCHANGED cand
    /\ UNCHANGED <<args, env, media_files, idx, stopwatch, fs, call, ret>>

\* lines 324-328 with transcribe (lines 168-197): whisperx returns, or raises
\* between the start and the stop of the timer, and nothing in main catches it
MainTranscribe ==
    /\ pc = "transcribe"
    /\ \/ \E r \in TranscribeResults :
            /\ loc' = [loc EXCEPT !.language = r.language, !.segments = r.segments,
                                  !.transcribe_device = loc.device]
            /\ stopwatch' = timer_stop(timer_start(stopwatch, Transcription), Transcription)
            /\ cand' = [cand EXCEPT ![idx] =
                          [Enter(@, "Transcribed") EXCEPT !.transcribed =
                              Append(@, loc.audio_path)]]
            /\ pc' = "format"
       \/ /\ stopwatch' = timer_start(stopwatch, Transcription)
          /\ cand' = [cand EXCEPT ![idx] =
                        [Fail(@, "transcribe") EXCEPT !.transcribed =
                            Append(@, loc.audio_path)]]
          /\ loc' = [loc EXCEPT !.transcribe_device = loc.device]
          /\ pc' = "crashed"
    /\ UNCHANGED <<args, env, media_files, idx, fs, call, ret>>

\* lines 331-334
MainFormat ==
    /\ pc = "format"
    /\ loc' = [loc EXCEPT !.subtitles = post_process(generate_subtitles(loc.segments))]
    /\ cand' = [cand EXCEPT ![idx] = Enter(@, "Formatted")]
    /\ pc' = "write"
    /\ UNCHANGED <<args, env, media_files, idx, stopwatch, fs, call, ret>>

\* lines 337-349: the file is written, or the error is logged; then the file's
\* timer stops and the loop goes on
MainWrite ==
    /\ pc = "write"
    /\ \/ /\ fs' = (subtitle_path(loc.input_media_path, loc.language)
                        :> [by |-> idx, subtitles |-> loc.subtitles]) @@ fs
          /\ cand' = [cand EXCEPT ![idx] =
                        [Enter(@, "Written") EXCEPT !.written =
                            Append(@, [language |-> loc.language,
                                       path |-> subtitle_path(loc.input_media_path,
                                                              loc.language)])]]
       \/ /\ cand' = [cand EXCEPT ![idx] = Fail(@, "write")]
          /\ UNCHANGED fs
    /\ stopwatch' = timer_stop(stopwatch, loc.file_name)
    /\ idx' = idx + 1
    /\ pc' = "loop"
    /\ UNCHANGED <<args, env, media_files, loc, call, ret>>

\* line 352
MainSummary ==
    /\ pc = "loop"
    /\ idx > Len(media_files.items)
    /\ stopwatch' = timer_summary(stopwatch)
    /\ pc' = "done"
    /\ UNCHANGED <<args, env, media_files, idx, loc, fs, cand, call, ret>>

Next ==
    \/ MainValidate
    \/ MainDiscover
    \/ MainNextFile
    \/ MainExtractAudio
    \/ MainGetDevice
    \/ MainTranscribe
    \/ MainFormat
    \/ MainWrite
    \/ MainSummary

Spec == Init /\ [][Next]_vars

\* main has ended: it returned, exited, or an exception left it
Ended == pc \in {"done", "exit1", "crashed"}

\* the candidates main was given to process
Candidates == 1..Len(cand)

Path(i) == media_files.items[i][1]

IsAudio(i) == media_files.items[i][2]

Terminal(c) == Stage(c) \in {"Written", "Failed"}

\* C1: a failure in one candidate never aborts the batch: once main has ended,
\* every candidate was driven through the pipeline, and every candidate whose
\* own stages all succeeded has its subtitle file written.  Stated for the runs
\* with a compute device given, where the only calls that raise are
\* transcription calls.
C1_FailureIsolated ==
    (Ended /\ args.compute_device # None) =>
        \A i \in Candidates :
            /\ Terminal(cand[i])
            /\ cand[i].failed_at = "none" => Stage(cand[i]) = "Written"

\* C4: for every candidate that reached AudioReady, device selection yields a
\* device and transcription is then invoked with it, whatever --compute_device
\* was: once main is past the candidate, transcribe was called for it once, and
\* it was called with a device get_device returned.
C4_DeviceThenTranscribe ==
    \A i \in Candidates :
        ("AudioReady" \in Range(cand[i].stages) /\ (Ended \/ i < idx)) =>
            /\ Len(cand[i].transcribed) = 1
            /\ i = idx => /\ loc.device \in {"cuda", "cpu"}
                          /\ loc.transcribe_device = loc.device

\* C5: with a directory and a file given, an invalid file does not discard the
\* candidates the directory walk yielded: they are what discovery returns.
C5_DirectoryResultsKept ==
    (/\ pc \notin {"start", "discover"}
     /\ Truthy(args.directory) /\ Truthy(args.file)
     /\ env.dir_found # <<>>
     /\ ~env.file_valid) =>
        /\ ~media_files.none
        /\ media_files.items = env.dir_found

AllWritten == pc = "done" /\ cand # <<>> /\ \A i \in Candidates : Stage(cand[i]) = "Written"

DistinctPaths == \A i, j \in Candidates : i # j => Path(i) # Path(j)

SameLanguage ==
    \A i, j \in Candidates : cand[i].written[1].language = cand[j].written[1].language

\* C6 as stated: after a batch in which every candidate succeeded, candidates of
\* distinct paths and the same language have pairwise distinct output paths, so
\* there is one subtitle file per candidate.
C6_OutputPathsDistinct ==
    (AllWritten /\ DistinctPaths /\ SameLanguage) =>
        /\ \A i, j \in Candidates : i # j => cand[i].written[1].path # cand[j].written[1].path
        /\ Cardinality(DOMAIN fs) = Len(cand)

\* the directory of a candidate and its name cut at the last "."
Slot(i) == <<dirname(Path(i)), file_name_of(Path(i))>>

\* C6 as amended: under the same conditions two candidates have the same output
\* path exactly when they have the same directory and the same file_name (the
\* base name of the path cut at its last "."), as a.mp4 and a.mkv of one
\* directory do; the batch leaves one subtitle file per such pair, the one of
\* the last candidate written to it.
C6_OutputPathPerSlot ==
    (AllWritten /\ DistinctPaths /\ SameLanguage) =>
        /\ \A i, j \in Candidates :
              cand[i].written[1].path = cand[j].written[1].path <=> Slot(i) = Slot(j)
        /\ Cardinality(DOMAIN fs) = Cardinality({Slot(i) : i \in Candidates})
        /\ \A i \in Candidates :
              fs[cand[i].written[1].path].by =
                  CHOOSE j \in Candidates :
                      /\ Slot(j) = Slot(i)
                      /\ \A k \in Candidates : Slot(k) = Slot(i) => k <= j

\* a.mp4 and a.mkv of one directory, and a.mp4 of another, all written in one
\* language: three candidates, two subtitle files
C6_Witness ==
    /\ AllWritten /\ DistinctPaths /\ SameLanguage
    /\ \E i, j, k \in Candidates :
          /\ i # j /\ Slot(i) = Slot(j)
          /\ Slot(k)[1] # Slot(i)[1] /\ Slot(k)[2] = Slot(i)[2]
          /\ cand[k].written[1].path # cand[i].written[1].path

\* C7: start(label) is never called while an earlier start(label) is unmatched
\* by stop(label), for every candidate list and every file base name.
C7_NoOverlappingStarts == stopwatch.overlapped = {}

\* C8: every run that starts processing candidates emits the timing summary
\* once, after the last candidate, whatever the per-file outcomes.  Stated for
\* the runs with a compute device given.
C8_SummaryEmitted ==
    (Ended /\ cand # <<>> /\ args.compute_device # None) => stopwatch.summaries = 1

\* C9: whether the transcoder succeeds or raises, extract_audio returns
\* audio-{baseName}.mp3, the "Audio Extraction" timer is stopped on return, and
\* main goes on to invoke transcription with the returned path.
C9_ExtractThenTranscribe ==
    \A i \in Candidates :
        cand[i].extracted # <<>> =>
            /\ cand[i].extracted =
                  << <<"audio-">> \o rsplit_dot_head(basename(Path(i)))
                        \o <<".", "mp3">> >>
            /\ AudioExtraction \notin stopwatch.running
            /\ (Ended \/ i < idx) => cand[i].transcribed = cand[i].extracted

StageOrder == <<"Discovered", "AudioReady", "Transcribed", "Formatted", "Written">>

\* the histories a candidate may have: the stages in order, cut short anywhere,
\* and ended by Failed when cut short
StageHistories ==
    {SubSeq(StageOrder, 1, n) : n \in 1..5}
        \cup {Append(SubSeq(StageOrder, 1, n), "Failed") : n \in 1..4}

\* C10: each candidate goes through Discovered, AudioReady, Transcribed,
\* Formatted, then Written or Failed, in that order, none twice; the extractor
\* is invoked exactly for the candidates not audio-tagged, and transcription
\* receives the source path of an audio-tagged candidate and the extracted path
\* of any other; no candidate leaves Discovered before the one before it has
\* reached Written or Failed.
C10_StagesInOrder ==
    \A i \in Candidates :
        /\ cand[i].stages \in StageHistories
        /\ Len(cand[i].extracted) =
              IF "AudioReady" \in Range(cand[i].stages) /\ ~IsAudio(i) THEN 1 ELSE 0
        /\ Len(cand[i].transcribed) <= 1
        /\ "Transcribed" \in Range(cand[i].stages) => Len(cand[i].transcribed) = 1
        /\ cand[i].transcribed # <<>> =>
              cand[i].transcribed[1] =
                  IF IsAudio(i) THEN Path(i) ELSE cand[i].extracted[1]
        /\ (i > 1 /\ cand[i].stages # <<"Discovered">>) => Terminal(cand[i - 1])

\* an audio-tagged candidate transcribed from its own path and written, then a
\* video candidate transcribed from the extracted path and written
C10_Witness ==
    /\ pc = "done"
    /\ Len(cand) >= 2
    /\ IsAudio(1) /\ ~IsAudio(2)
    /\ cand[1].stages = StageOrder /\ cand[2].stages = StageOrder
    /\ cand[1].extracted = <<>> /\ cand[1].transcribed = <<Path(1)>>
    /\ cand[2].extracted # <<>> /\ cand[2].transcribed = cand[2].extracted

-----------------------------------------------------------------------------
(* SpecDev: get_device on every preference and every probe outcome         *)

MaxPad == 1

Pads == {Rep(":", n) : n \in 0..MaxPad}

\* four characters, each the letter of "cuda" in either case, or another letter
Mids ==
    {<<a, b, c, d>> : a \in {"c", "C", "p"}, b \in {"u", "U", "p"},
                      c \in {"d", "D", "p"}, d \in {"a", "A", "p"}}

Preferences ==
    {None, <<>>, <<"c", "p", "u">>, <<"C", "P", "U">>}
        \cup {l \o m \o r : l \in Pads, m \in Mids, r \in Pads}

InitDev ==
    /\ MainIdle
    /\ \E p \in Preferences, b \in CudaProbes :
            call = [fn |-> "get_device", device_selection |-> p, probe |-> b]
    /\ ret = Pending

CallGetDevice ==
    /\ call.fn = "get_device"
    /\ ret = Pending
    /\ ret' = get_device(call.device_selection, call.probe)
    /\ UNCHANGED <<mainVars, call>>

NextDev == CallGetDevice

SpecDev == InitDev /\ [][NextDev]_vars

\* some four consecutive characters of s spell "cuda", each in either case
SpellsCudaAnyCase(s) ==
    \E k \in 1..(Len(s) - 3) :
        /\ s[k] \in {"c", "C"}
        /\ s[k + 1] \in {"u", "U"}
        /\ s[k + 2] \in {"d", "D"}
        /\ s[k + 3] \in {"a", "A"}

\* C3: get_device never raises; it returns "cuda" exactly when the preference
\* is absent or contains "cuda" in any letter case and the probe returned
\* true, and "cpu" in every other case, a raising probe included.
C3_GetDeviceDetermined ==
    (call.fn = "get_device" /\ ret # Pending) =>
        /\ ret.raised = FALSE
        /\ ret.value \in {"cuda", "cpu"}
        /\ ret.value = "cuda" <=>
              /\ call.device_selection = None
                    \/ SpellsCudaAnyCase(call.device_selection)
              /\ call.probe = "true"

\* a mixed-case request with a padded suffix resolved to cuda, and the
\* request is one a case-sensitive search would miss
C3_Witness ==
    /\ call.fn = "get_device"
    /\ call.device_selection = <<"C", "u", "D", "a", ":">>
    /\ call.probe = "true"
    /\ ret = Return("cuda")

-----------------------------------------------------------------------------
(* SpecPP: generate_subtitles, then post_process on the rendered text       *)

MaxSegments == 2

Word(c, n) == Rep(c, n)

\* texts of one or two words, around the clip limit in length
SegmentTexts ==
    {Word("a", n) \o sep \o Word("b", m) :
        n \in {3, clip_limit - 1, clip_limit, clip_limit + 1},
        sep \in {<<>>, <<" ">>},
        m \in {0, 5}}

Segments ==
    {[start |-> t, end |-> t + 1500, text |-> x] : t \in {0, 3725500}, x \in SegmentTexts}

SegmentLists == UNION {[1..n -> Segments] : n \in 0..MaxSegments}

InitPP ==
    /\ MainIdle
    /\ \E segs \in SegmentLists :
            call = [fn |-> "generate_subtitles", segments |-> segs, subtitles |-> None]
    /\ ret = Pending

CallGenerateSubtitles ==
    /\ call.fn = "generate_subtitles"
    /\ call' = [call EXCEPT !.fn = "post_process",
                            !.subtitles = generate_subtitles(call.segments)]
    /\ UNCHANGED <<mainVars, ret>>

CallPostProcess ==
    /\ call.fn = "post_process"
    /\ ret = Pending
    /\ ret' = Return(post_process(call.subtitles))
    /\ UNCHANGED <<mainVars, call>>

NextPP == CallGenerateSubtitles \/ CallPostProcess

SpecPP == InitPP /\ [][NextPP]_vars

\* the lines of a text: what lies between its line terminators
RECURSIVE Lines(_)
Lines(s) ==
    LET nl == {k \in 1..Len(s) : s[k] = "\n"}
    IN  IF nl = {} THEN <<s>>
        ELSE LET first == CHOOSE k \in nl : \A m \in nl : k <= m
             IN  <<SubSeq(s, 1, first - 1)>> \o Lines(SubSeq(s, first + 1, Len(s)))

\* the 0-based positions p <= 150 of the line that hold a space
SpacesUpTo150(line) == {p \in 0..150 : p < Len(line) /\ line[p + 1] = " "}

LastOf(S) == CHOOSE p \in S : \A q \in S : q <= p

\* C2: post_process of the rendered text clips every line longer than 150
\* characters that has a space in positions [0,150]: the output line is the
\* prefix ending at the last such space, so at most 150 characters long.
C2_LongLinesClipped ==
    (call.fn = "post_process" /\ ret # Pending) =>
        LET before == Lines(call.subtitles)
            after == Lines(ret.value)
        IN  /\ Len(after) = Len(before)
            /\ \A k \in 1..Len(before) :
                  (Len(before[k]) > 150 /\ SpacesUpTo150(before[k]) # {}) =>
                      /\ Len(after[k]) <= 150
                      /\ after[k] = Slice(before[k], 0, LastOf(SpacesUpTo150(before[k])))

=============================================================================
